---- MODULE Spec2Model ----
(***************************************************************************)
(* Model of src/bot.py: the PostgreSQL tables of DB.init, the purchase     *)
(* transaction DB.deliver_purchase, the ledger write                       *)
(* DB.set_balance_with_move as called by /sumar and /restar, and the       *)
(* catalog and inventory operations.  Every "await" on the database is one *)
(* step.  Statements inside "async with conn.transaction()" write to the   *)
(* transaction's private buffer tx[p]; the tables change at commit         *)
(* (READ COMMITTED: other connections never see uncommitted rows).         *)
(***************************************************************************)
EXTENDS Integers, Sequences, FiniteSets, TLC

\* ---------------------------------------------------------------- bounds
MaxCodes == 2      \* rows the codes table may hold
MaxPrice == 1      \* largest price of /precio, largest amount of /sumar and /restar
MaxMoves == 2      \* /sumar and /restar are accepted while the move sequence is below this

TelegramIds == {1, 2}             \* from_user.id of the accounts that talk to the bot
Skus == {"A", "B"}
Buyers == {"p1", "p2"}          \* concurrent "buy:" callbacks, one call each
BatchBuyers == Buyers \cup {"p3"}    \* the callbacks of a burst of purchases
Admins == {"a1"}                \* the /sumar, /restar handler
OrderIds == {"O1", "O2"}        \* values uuid4().hex[:10].upper() may take
RawCodes == {<<"x">>, <<"y">>, <<" ", "x">>, <<" ">>}   \* lines an admin pastes

NoId == 0                       \* SQL NULL of an integer column
NoText == ""                    \* SQL NULL of a text column
NowStr == "now"                 \* now_str()

VARIABLES
    users,          \* telegram_id -> balance_cents, for the rows that exist
    products,       \* sku -> [price_cents, active], for the rows that exist
    codes,          \* codes table; the index is the BIGSERIAL id
    orders,         \* set of order rows
    balance_moves,  \* set of balance_moves rows, each with its BIGSERIAL id
    moves_seq,      \* last value of balance_moves_id_seq
    row_locks,      \* row locks held: <<table, key, holder>>
    proc,           \* locals of each deliver_purchase call
    adm,            \* locals of each /sumar or /restar handler
    tx              \* uncommitted writes of each open transaction

vars == <<users, products, codes, orders, balance_moves, moves_seq, row_locks, proc, adm, tx>>
tables == <<users, products, codes, orders, balance_moves>>

\* ---------------------------------------------------------------- helpers
Min(S) == CHOOSE x \in S : \A y \in S : x <= y

RECURSIVE lstrip(_)
lstrip(s) == IF s # <<>> /\ Head(s) = " " THEN lstrip(Tail(s)) ELSE s

RECURSIVE rstrip(_)
rstrip(s) == IF s # <<>> /\ s[Len(s)] = " " THEN rstrip(SubSeq(s, 1, Len(s) - 1)) ELSE s

\* str.strip()
strip(s) == rstrip(lstrip(s))

\* the rows add_codes inserts for the pasted lines: stripped, blanks skipped
RECURSIVE StrippedCodes(_)
StrippedCodes(lines) ==
    IF lines = <<>> THEN <<>>
    ELSE LET c == strip(Head(lines))
         IN  IF c = <<>> THEN StrippedCodes(Tail(lines))
             ELSE <<c>> \o StrippedCodes(Tail(lines))

NewCodeRow(sku, c) ==
    [sku |-> sku, code |-> c, status |-> "available", delivered_at |-> NoText,
     buyer_telegram_id |-> NoId, order_id |-> NoText]

EmptyTx == [codes |-> {}, orders |-> {}, users |-> {}, moves |-> {}]

IdleProc ==
    [pc |-> "idle", telegram_id |-> NoId, sku |-> NoText, price_cents |-> 0,
     balance |-> 0, code_id |-> NoId, code_value |-> <<>>, order_id |-> NoText,
     new_balance |-> 0, faltan |-> 0, result |-> "none"]

IdleAdm ==
    [pc |-> "idle", cmd |-> NoText, uid |-> NoId, before |-> 0,
     new_balance |-> 0, move_type |-> NoText, amount_cents |-> 0, row_before |-> 0,
     ret |-> "none"]

LockedByOther(table, key, h) ==
    \E l \in row_locks : l[1] = table /\ l[2] = key /\ l[3] # h
\* a transaction that ends without giving up its row locks
KeepLocks(h) == row_locks
\* a transaction that ends giving up its code row locks only
ReleaseCodeLocksOnly(h) == {l \in row_locks : l[3] # h \/ l[1] # "codes"}
\* the end of "async with conn.transaction()": every row lock of h is released
ReleaseLocks(h) == {l \in row_locks : l[3] # h}

\* ---------------------------------------------------------------- Init
\* The store after the front-end ran, one after the other and to completion:
\* /start for the accounts in regs, /addcodes for the units in units (which
\* creates their products with price 0), /precio and /desactivar for the
\* products, and one /sumar per account with a positive balance in bal.
TopupRow(id, uid, cents) ==
    [id |-> id, telegram_id |-> uid, type |-> "topup", amount_cents |-> cents,
     balance_before_cents |-> 0, balance_after_cents |-> cents, ref |-> <<"admin", "id">>]

Funded(regs, bal) == {u \in regs : bal[u] > 0}

\* the id of the /sumar row of account u when the accounts are topped up in id order
TopupId(regs, bal, u) == Cardinality({v \in Funded(regs, bal) : v <= u})

Prepared(buyers, regs, bal, prods, units) ==
    /\ users = [u \in regs |-> bal[u]]
    /\ products = prods
    /\ codes = [i \in 1..Len(units) |-> NewCodeRow(units[i][1], units[i][2])]
    /\ orders = {}
    /\ balance_moves = {TopupRow(TopupId(regs, bal, u), u, bal[u]) : u \in Funded(regs, bal)}
    /\ moves_seq = Cardinality(Funded(regs, bal))
    /\ row_locks = {}
    /\ proc = [p \in buyers |-> IdleProc]
    /\ adm = [a \in Admins |-> IdleAdm]
    /\ tx = [h \in buyers \cup Admins |-> EmptyTx]

\* ---------------------------------------------------------------- catalog, accounts
\* upsert_user: INSERT with balance 0, or UPDATE of the names only
upsert_user(telegram_id) ==
    /\ telegram_id \notin DOMAIN users
    /\ users' = [u \in DOMAIN users \cup {telegram_id} |->
                    IF u = telegram_id THEN 0 ELSE users[u]]
    /\ UNCHANGED <<products, codes, orders, balance_moves, moves_seq, row_locks, proc, adm, tx>>

EnsuredProducts(sku) ==
    IF sku \in DOMAIN products THEN products
    ELSE [s \in DOMAIN products \cup {sku} |->
            IF s = sku THEN [price_cents |-> 0, active |-> TRUE] ELSE products[s]]

set_price(sku, price_cents) ==
    /\ sku \in DOMAIN products
    /\ products[sku].price_cents # price_cents
    /\ products' = [products EXCEPT ![sku].price_cents = price_cents]
    /\ UNCHANGED <<users, codes, orders, balance_moves, moves_seq, row_locks, proc, adm, tx>>

set_active(sku, active) ==
    /\ sku \in DOMAIN products
    /\ products[sku].active # active
    /\ products' = [products EXCEPT ![sku].active = active]
    /\ UNCHANGED <<users, codes, orders, balance_moves, moves_seq, row_locks, proc, adm, tx>>

\* add_codes: ensure_product, then one INSERT per non-blank stripped line
add_codes(sku, lines) ==
    LET cs == StrippedCodes(lines) IN
    /\ Len(codes) + Len(lines) <= MaxCodes
    /\ products' = EnsuredProducts(sku)
    /\ codes' = codes \o [i \in 1..Len(cs) |-> NewCodeRow(sku, cs[i])]
    /\ UNCHANGED <<users, orders, balance_moves, moves_seq, row_locks, proc, adm, tx>>

\* ---------------------------------------------------------------- deliver_purchase
Finish(p, result) == [proc EXCEPT ![p].pc = "done", ![p].result = result]

\* the same SELECT without FOR UPDATE SKIP LOCKED: rows locked by others qualify
LockableNoRowLock(p, sku) ==
    {i \in 1..Len(codes) : codes[i].sku = sku /\ codes[i].status = "available"}

\* the same SELECT without "AND status='available'"
LockableAnyStatus(p, sku) ==
    {i \in 1..Len(codes) : codes[i].sku = sku /\ ~LockedByOther("codes", i, p)}

\* rows of sku the SELECT ... FOR UPDATE SKIP LOCKED of transaction p can lock
Lockable(p, sku) ==
    {i \in 1..Len(codes) :
        /\ codes[i].sku = sku
        /\ codes[i].status = "available"
        /\ ~LockedByOther("codes", i, p)}

Max(S) == CHOOSE x \in S : \A y \in S : x >= y

\* ORDER BY id DESC LIMIT 1
PickCodeNewest(p, sku) == Max(Lockable(p, sku))

\* ORDER BY id ASC LIMIT 1
PickCode(p, sku) == Min(Lockable(p, sku))

\* balance <= price_cents
InsufficientOrEqual(balance, price_cents) == balance <= price_cents

\* balance + 1 < price_cents
InsufficientOffByOne(balance, price_cents) == balance + 1 < price_cents

\* balance < price_cents
Insufficient(balance, price_cents) == balance < price_cents

\* the same callback without "if not bool(prod["active"])"
LoadProductIgnoringActive(p, telegram_id, sku) ==
    /\ p \in DOMAIN proc
    /\ proc[p].pc = "idle"
    /\ proc' =
        IF sku \notin DOMAIN products
        THEN [proc EXCEPT ![p].pc = "done", ![p].result = "no_existe",
                          ![p].telegram_id = telegram_id, ![p].sku = sku]
        ELSE [proc EXCEPT ![p].pc = "lock_user", ![p].telegram_id = telegram_id,
                          ![p].sku = sku, ![p].price_cents = products[sku].price_cents]
    /\ UNCHANGED <<users, products, codes, orders, balance_moves, moves_seq, row_locks, adm, tx>>

\* "Load product": SELECT on its own connection, outside the transaction
LoadProduct(p, telegram_id, sku) ==
    /\ p \in DOMAIN proc
    /\ proc[p].pc = "idle"
    /\ proc' =
        IF sku \notin DOMAIN products
        THEN [proc EXCEPT ![p].pc = "done", ![p].result = "no_existe",
                          ![p].telegram_id = telegram_id, ![p].sku = sku]
        ELSE IF ~products[sku].active
        THEN [proc EXCEPT ![p].pc = "done", ![p].result = "no_disponible",
                          ![p].telegram_id = telegram_id, ![p].sku = sku]
        ELSE [proc EXCEPT ![p].pc = "lock_user", ![p].telegram_id = telegram_id,
                          ![p].sku = sku, ![p].price_cents = products[sku].price_cents]
    /\ UNCHANGED <<users, products, codes, orders, balance_moves, moves_seq, row_locks, adm, tx>>

\* the same step with the stock looked at before the balance
LockUserStockFirst(p) ==
    LET uid == proc[p].telegram_id IN
    /\ p \in DOMAIN proc
    /\ proc[p].pc = "lock_user"
    /\ ~LockedByOther("users", uid, p)
    /\ IF uid \notin DOMAIN users
       THEN /\ proc' = Finish(p, "no_registrado")
            /\ row_locks' = ReleaseLocks(p)
       ELSE IF Lockable(p, proc[p].sku) = {}
       THEN /\ proc' = Finish(p, "sin_stock")
            /\ row_locks' = ReleaseLocks(p)
       ELSE IF Insufficient(users[uid], proc[p].price_cents)
       THEN /\ proc' = [proc EXCEPT ![p].pc = "done", ![p].result = "saldo_insuficiente",
                                    ![p].balance = users[uid],
                                    ![p].faltan = proc[p].price_cents - users[uid]]
            /\ row_locks' = ReleaseLocks(p)
       ELSE /\ proc' = [proc EXCEPT ![p].pc = "pick_code", ![p].balance = users[uid]]
            /\ row_locks' = row_locks \cup {<<"users", uid, p>>}
    /\ UNCHANGED <<users, products, codes, orders, balance_moves, moves_seq, adm, tx>>

\* "Lock user balance": SELECT ... FOR UPDATE, then the balance check
LockUser(p) ==
    LET uid == proc[p].telegram_id IN
    /\ p \in DOMAIN proc
    /\ proc[p].pc = "lock_user"
    /\ ~LockedByOther("users", uid, p)
    /\ IF uid \notin DOMAIN users
       THEN /\ proc' = Finish(p, "no_registrado")
            /\ row_locks' = ReleaseLocks(p)
       ELSE IF Insufficient(users[uid], proc[p].price_cents)
       THEN /\ proc' = [proc EXCEPT ![p].pc = "done", ![p].result = "saldo_insuficiente",
                                    ![p].balance = users[uid],
                                    ![p].faltan = proc[p].price_cents - users[uid]]
            /\ row_locks' = ReleaseLocks(p)
       ELSE /\ proc' = [proc EXCEPT ![p].pc = "pick_code", ![p].balance = users[uid]]
            /\ row_locks' = row_locks \cup {<<"users", uid, p>>}
    /\ UNCHANGED <<users, products, codes, orders, balance_moves, moves_seq, adm, tx>>

\* the same SELECT with FOR UPDATE and no SKIP LOCKED: it waits for the lock of
\* the first available row
SelectCodeBlocking(p) ==
    LET avail == {i \in 1..Len(codes) :
                    codes[i].sku = proc[p].sku /\ codes[i].status = "available"}
    IN  /\ p \in DOMAIN proc
        /\ proc[p].pc = "pick_code"
        /\ IF avail = {}
           THEN /\ proc' = Finish(p, "sin_stock")
                /\ row_locks' = ReleaseLocks(p)
           ELSE \E oid \in OrderIds :
                LET id == Min(avail) IN
                /\ ~LockedByOther("codes", id, p)
                /\ proc' = [proc EXCEPT ![p].pc = "mark_code", ![p].code_id = id,
                                        ![p].code_value = codes[id].code,
                                        ![p].order_id = oid,
                                        ![p].new_balance = proc[p].balance - proc[p].price_cents]
                /\ row_locks' = row_locks \cup {<<"codes", id, p>>}
        /\ UNCHANGED <<users, products, codes, orders, balance_moves, moves_seq, adm, tx>>

\* "Pick 1 available code with row lock", then the order id and the new balance
SelectCode(p) ==
    /\ p \in DOMAIN proc
    /\ proc[p].pc = "pick_code"
    /\ IF Lockable(p, proc[p].sku) = {}
       THEN /\ proc' = Finish(p, "sin_stock")
            /\ row_locks' = ReleaseLocks(p)
       ELSE \E oid \in OrderIds :
            LET id == PickCode(p, proc[p].sku) IN
            /\ proc' = [proc EXCEPT ![p].pc = "mark_code", ![p].code_id = id,
                                    ![p].code_value = codes[id].code,
                                    ![p].order_id = oid,
                                    ![p].new_balance = proc[p].balance - proc[p].price_cents]
            /\ row_locks' = row_locks \cup {<<"codes", id, p>>}
    /\ UNCHANGED <<users, products, codes, orders, balance_moves, moves_seq, adm, tx>>

\* the same UPDATE without "delivered_at=$2"
DeliveredFieldsNoTime(p) ==
    [id |-> proc[p].code_id, status |-> "delivered", delivered_at |-> NoText,
     buyer_telegram_id |-> proc[p].telegram_id, order_id |-> proc[p].order_id]

DeliveredFields(p) ==
    [id |-> proc[p].code_id, status |-> "delivered", delivered_at |-> NowStr,
     buyer_telegram_id |-> proc[p].telegram_id, order_id |-> proc[p].order_id]

\* "Mark code delivered": UPDATE codes ... WHERE id=$1
MarkDelivered(p) ==
    /\ p \in DOMAIN proc
    /\ proc[p].pc = "mark_code"
    /\ tx' = [tx EXCEPT ![p].codes = @ \cup {DeliveredFields(p)}]
    /\ proc' = [proc EXCEPT ![p].pc = "insert_order"]
    /\ UNCHANGED <<users, products, codes, orders, balance_moves, moves_seq, row_locks, adm>>

\* the same row with the price the catalog holds when the order is inserted
OrderRowCurrentPrice(p) ==
    [order_id |-> proc[p].order_id, telegram_id |-> proc[p].telegram_id,
     sku |-> proc[p].sku, price_cents |-> products[proc[p].sku].price_cents,
     status |-> "paid_delivered", created_at |-> NowStr, delivered_at |-> NowStr]

OrderRow(p) ==
    [order_id |-> proc[p].order_id, telegram_id |-> proc[p].telegram_id,
     sku |-> proc[p].sku, price_cents |-> proc[p].price_cents,
     status |-> "paid_delivered", created_at |-> NowStr, delivered_at |-> NowStr]

\* the same INSERT into a table whose order_id is not a key
InsertOrderNoKey(p) ==
    /\ p \in DOMAIN proc
    /\ proc[p].pc = "insert_order"
    /\ proc' = [proc EXCEPT ![p].pc = "update_balance"]
    /\ tx' = [tx EXCEPT ![p].orders = @ \cup {OrderRow(p)}]
    /\ UNCHANGED <<users, products, codes, orders, balance_moves, moves_seq, row_locks, adm>>

\* the same INSERT in a loop that mints a new order id when the key is taken
InsertOrderRetry(p) ==
    /\ p \in DOMAIN proc
    /\ proc[p].pc = "insert_order"
    /\ \A q \in DOMAIN proc \ {p} : \A o \in tx[q].orders : o.order_id # proc[p].order_id
    /\ \E oid \in OrderIds :
        /\ \A o \in orders : o.order_id # oid
        /\ (\A o \in orders : o.order_id # proc[p].order_id) => oid = proc[p].order_id
        /\ proc' = [proc EXCEPT ![p].pc = "update_balance", ![p].order_id = oid]
        /\ tx' = [tx EXCEPT ![p].orders = @ \cup {[OrderRow(p) EXCEPT !.order_id = oid]}]
    /\ UNCHANGED <<users, products, codes, orders, balance_moves, moves_seq, row_locks, adm>>

\* "Create order": INSERT INTO orders; order_id is the PRIMARY KEY.  The insert
\* waits while another open transaction holds an uncommitted row with the key,
\* and raises UniqueViolationError when a committed row has it: the exception
\* leaves both "async with" blocks, which rolls the transaction back.
InsertOrder(p) ==
    /\ p \in DOMAIN proc
    /\ proc[p].pc = "insert_order"
    /\ \A q \in DOMAIN proc \ {p} : \A o \in tx[q].orders : o.order_id # proc[p].order_id
    /\ IF \E o \in orders : o.order_id = proc[p].order_id
       THEN /\ proc' = Finish(p, "unique_violation")
            /\ tx' = [tx EXCEPT ![p] = EmptyTx]
            /\ row_locks' = ReleaseLocks(p)
       ELSE /\ proc' = [proc EXCEPT ![p].pc = "update_balance"]
            /\ tx' = [tx EXCEPT ![p].orders = @ \cup {OrderRow(p)}]
            /\ UNCHANGED row_locks
    /\ UNCHANGED <<users, products, codes, orders, balance_moves, moves_seq, adm>>

\* the same row with the positive price as amount
PurchaseMoveUnsigned(p, id) ==
    [id |-> id, telegram_id |-> proc[p].telegram_id, type |-> "purchase",
     amount_cents |-> proc[p].price_cents,
     balance_before_cents |-> proc[p].balance,
     balance_after_cents |-> proc[p].new_balance,
     ref |-> <<"order", proc[p].order_id>>]

PurchaseMove(p, id) ==
    [id |-> id, telegram_id |-> proc[p].telegram_id, type |-> "purchase",
     amount_cents |-> 0 - proc[p].price_cents,
     balance_before_cents |-> proc[p].balance,
     balance_after_cents |-> proc[p].new_balance,
     ref |-> <<"order", proc[p].order_id>>]

\* "Update balance + move": UPDATE users SET balance_cents=$2, then INSERT INTO
\* balance_moves ... 'purchase', whose id is drawn from the sequence now.  Both
\* write to the transaction's buffer under the account lock it holds.
UpdateBalance(p) ==
    /\ p \in DOMAIN proc
    /\ proc[p].pc = "update_balance"
    /\ moves_seq' = moves_seq + 1
    /\ tx' = [tx EXCEPT ![p].users = @ \cup {<<proc[p].telegram_id, proc[p].new_balance>>},
                        ![p].moves = @ \cup {PurchaseMove(p, moves_seq + 1)}]
    /\ proc' = [proc EXCEPT ![p].pc = "commit"]
    /\ UNCHANGED <<users, products, codes, orders, balance_moves, row_locks, adm>>

\* the same commit of an UPDATE users without "WHERE telegram_id=$1"
CommittedUsersNoWhere(h) ==
    [u \in DOMAIN users |->
        IF tx[h].users # {}
        THEN (CHOOSE w \in tx[h].users : TRUE)[2]
        ELSE users[u]]

\* the tables after transaction h commits its buffer
CommittedUsers(h) ==
    [u \in DOMAIN users |->
        IF \E w \in tx[h].users : w[1] = u
        THEN (CHOOSE w \in tx[h].users : w[1] = u)[2]
        ELSE users[u]]

CommittedCodes(h) ==
    [i \in 1..Len(codes) |->
        IF \E w \in tx[h].codes : w.id = i
        THEN LET w == CHOOSE w \in tx[h].codes : w.id = i
             IN  [codes[i] EXCEPT !.status = w.status, !.delivered_at = w.delivered_at,
                                  !.buyer_telegram_id = w.buyer_telegram_id,
                                  !.order_id = w.order_id]
        ELSE codes[i]]

CommittedOrders(h) == orders \cup tx[h].orders
CommittedMoves(h) == balance_moves \cup tx[h].moves

\* leaving "async with conn.transaction()" normally: COMMIT, then return True
Commit(p) ==
    /\ p \in DOMAIN proc
    /\ proc[p].pc = "commit"
    /\ users' = CommittedUsers(p)
    /\ codes' = CommittedCodes(p)
    /\ orders' = CommittedOrders(p)
    /\ balance_moves' = CommittedMoves(p)
    /\ tx' = [tx EXCEPT ![p] = EmptyTx]
    /\ row_locks' = ReleaseLocks(p)
    /\ proc' = Finish(p, "ok")
    /\ UNCHANGED <<products, moves_seq, adm>>

\* the steps of the transaction of call p, once "Load product" let it through
purchase_transaction(p) ==
    \/ LockUser(p)
    \/ SelectCode(p)
    \/ MarkDelivered(p)
    \/ InsertOrder(p)
    \/ UpdateBalance(p)
    \/ Commit(p)

\* one "buy:<sku>" callback; from_user.id is one of callers
deliver_purchase(p, callers) ==
    \/ \E u \in callers, s \in Skus : LoadProduct(p, u, s)
    \/ LockUser(p)
    \/ SelectCode(p)
    \/ MarkDelivered(p)
    \/ InsertOrder(p)
    \/ UpdateBalance(p)
    \/ Commit(p)

\* ---------------------------------------------------------------- /sumar, /restar
\* get_balance: a SELECT on its own connection, no lock; 0 when there is no row
get_balance(telegram_id) == IF telegram_id \in DOMAIN users THEN users[telegram_id] ELSE 0

\* admin_sumar: after = before + cents, amount = cents, type topup
\* admin_restar: after = before - cents, amount = -cents, type admin_adjust
NewBalance(cmd, before, cents) == IF cmd = "sumar" THEN before + cents ELSE before - cents
SignedAmount(cmd, cents) == IF cmd = "sumar" THEN cents ELSE 0 - cents
MoveType(cmd) == IF cmd = "sumar" THEN "topup" ELSE "admin_adjust"

\* the handler up to its call of set_balance_with_move; user_id_by_username
\* found uid, so the row exists
AdminRead(a, cmd, uid, cents) ==
    /\ adm[a].pc = "idle"
    /\ moves_seq < MaxMoves
    /\ uid \in DOMAIN users
    /\ adm' = [adm EXCEPT ![a] =
                [IdleAdm EXCEPT !.pc = "lock_user", !.cmd = cmd, !.uid = uid,
                                !.before = get_balance(uid),
                                !.new_balance = NewBalance(cmd, get_balance(uid), cents),
                                !.move_type = MoveType(cmd),
                                !.amount_cents = SignedAmount(cmd, cents)]]
    /\ UNCHANGED <<users, products, codes, orders, balance_moves, moves_seq, row_locks, proc, tx>>

\* a call of set_balance_with_move(telegram_id, new_balance, move_type, amount_cents)
SbmCall(a, telegram_id, new_balance, move_type, amount_cents) ==
    /\ adm[a].pc = "idle"
    /\ moves_seq < MaxMoves
    /\ adm' = [adm EXCEPT ![a] =
                [IdleAdm EXCEPT !.pc = "lock_user", !.uid = telegram_id,
                                !.new_balance = new_balance, !.move_type = move_type,
                                !.amount_cents = amount_cents]]
    /\ UNCHANGED <<users, products, codes, orders, balance_moves, moves_seq, row_locks, proc, tx>>

\* what a caller of set_balance_with_move gets when the function ends: it has
\* no return value on either path and raises nothing of its own
Returned == "None"

\* set_balance_with_move: SELECT balance_cents ... FOR UPDATE; "if not row: return"
SbmLock(a) ==
    /\ adm[a].pc = "lock_user"
    /\ ~LockedByOther("users", adm[a].uid, a)
    /\ IF adm[a].uid \notin DOMAIN users
       THEN /\ adm' = [adm EXCEPT ![a] = [IdleAdm EXCEPT !.ret = Returned]]
            /\ UNCHANGED row_locks
       ELSE /\ adm' = [adm EXCEPT ![a].pc = "update_balance",
                                  ![a].row_before = users[adm[a].uid]]
            /\ row_locks' = row_locks \cup {<<"users", adm[a].uid, a>>}
    /\ UNCHANGED <<users, products, codes, orders, balance_moves, moves_seq, proc, tx>>

\* the same row with the balance the handler read before the call as "before"
AdminMoveStaleBefore(a, id) ==
    [id |-> id, telegram_id |-> adm[a].uid, type |-> adm[a].move_type,
     amount_cents |-> adm[a].amount_cents,
     balance_before_cents |-> adm[a].before,
     balance_after_cents |-> adm[a].new_balance,
     ref |-> <<"admin", "id">>]

AdminMove(a, id) ==
    [id |-> id, telegram_id |-> adm[a].uid, type |-> adm[a].move_type,
     amount_cents |-> adm[a].amount_cents,
     balance_before_cents |-> adm[a].row_before,
     balance_after_cents |-> adm[a].new_balance,
     ref |-> <<"admin", "id">>]

\* UPDATE users SET balance_cents = after, where after = int(new_balance), then
\* INSERT INTO balance_moves with before = the balance read under the lock
SbmUpdate(a) ==
    /\ adm[a].pc = "update_balance"
    /\ moves_seq' = moves_seq + 1
    /\ tx' = [tx EXCEPT ![a].users = @ \cup {<<adm[a].uid, adm[a].new_balance>>},
                        ![a].moves = @ \cup {AdminMove(a, moves_seq + 1)}]
    /\ adm' = [adm EXCEPT ![a].pc = "commit"]
    /\ UNCHANGED <<users, products, codes, orders, balance_moves, row_locks, proc>>

\* COMMIT; the handler answers and ends
SbmCommit(a) ==
    /\ adm[a].pc = "commit"
    /\ users' = CommittedUsers(a)
    /\ balance_moves' = CommittedMoves(a)
    /\ tx' = [tx EXCEPT ![a] = EmptyTx]
    /\ row_locks' = ReleaseLocks(a)
    /\ adm' = [adm EXCEPT ![a] = [IdleAdm EXCEPT !.ret = Returned]]
    /\ UNCHANGED <<products, codes, orders, moves_seq, proc>>

\* the steps of set_balance_with_move once it was called
ledger_transaction(a) == SbmLock(a) \/ SbmUpdate(a) \/ SbmCommit(a)

admin_balance(a) ==
    \/ \E cmd \in {"sumar", "restar"}, u \in TelegramIds, c \in 1..MaxPrice : AdminRead(a, cmd, u, c)
    \/ SbmLock(a)
    \/ SbmUpdate(a)
    \/ SbmCommit(a)

\* set_balance_with_move called with any account id, registered or not
set_balance_with_move(a) ==
    \/ \E u \in TelegramIds, nb \in 0..MaxPrice, t \in {"topup", "admin_adjust"} :
            SbmCall(a, u, nb, t, IF t = "topup" THEN MaxPrice ELSE 0 - MaxPrice)
    \/ SbmLock(a)
    \/ SbmUpdate(a)
    \/ SbmCommit(a)

\* ---------------------------------------------------------------- specifications
\* Purchases against the ledger operations: accounts register, the admin tops
\* up and adjusts, buyers purchase; the catalog and the inventory are those of
\* the initial state.
InitLedger ==
    \E price \in 0..MaxPrice, active \in BOOLEAN, k \in 1..MaxCodes :
        Prepared(Buyers, {1}, [u \in {1} |-> 0],
                 [s \in {"A"} |-> [price_cents |-> price, active |-> active]],
                 [i \in 1..k |-> <<"A", <<"x">>>>])

\* the two callbacks are interchangeable: the first is account 1's
LedgerCallers(p) == IF p = "p1" THEN {1} ELSE TelegramIds

NextLedger ==
    \/ \E u \in TelegramIds : upsert_user(u)
    \/ \E p \in BatchBuyers : deliver_purchase(p, LedgerCallers(p))
    \/ \E a \in Admins : admin_balance(a)

Spec == InitLedger /\ [][NextLedger]_vars

\* Purchases against the inventory load: the admin pastes codes for either
\* SKU (new products get price 0) while registered buyers purchase.
InitInventory == Prepared(Buyers, TelegramIds, [u \in TelegramIds |-> 0], <<>>, <<>>)

NextInventory ==
    \/ \E s \in Skus, n \in 0..MaxCodes : \E lines \in [1..n -> RawCodes] : add_codes(s, lines)
    \/ \E p \in BatchBuyers : deliver_purchase(p, TelegramIds)

SpecInventory == InitInventory /\ [][NextInventory]_vars

\* Purchases against the catalog changes: the admin sets prices, activates and
\* deactivates while registered buyers purchase from a loaded inventory.
InitCatalog ==
    \E b \in [TelegramIds -> {0, MaxPrice}], price \in 0..MaxPrice, k \in 0..MaxCodes :
        Prepared(Buyers, TelegramIds, b,
                 [s \in {"A"} |-> [price_cents |-> price, active |-> TRUE]],
                 [i \in 1..k |-> <<"A", <<"x">>>>])

NextCatalog ==
    \/ \E s \in Skus, c \in 0..MaxPrice : set_price(s, c)
    \/ \E s \in Skus, b \in BOOLEAN : set_active(s, b)
    \/ \E p \in BatchBuyers : deliver_purchase(p, TelegramIds)

SpecCatalog == InitCatalog /\ [][NextCatalog]_vars

\* A burst of purchases and nothing else: K units of SKU A at one price,
\* registered accounts with their balances, every caller purchasing once.
InitBatch ==
    \E b \in [TelegramIds -> {0, MaxPrice, 2 * MaxPrice}], price \in 0..MaxPrice, k \in 0..MaxCodes :
        Prepared(BatchBuyers, TelegramIds, b,
                 [s \in {"A"} |-> [price_cents |-> price, active |-> TRUE]],
                 [i \in 1..k |-> <<"A", <<"x">>>>])

NextBatch == \E p \in BatchBuyers : deliver_purchase(p, TelegramIds)

SpecBatch == InitBatch /\ [][NextBatch]_vars

\* The ledger write on its own: set_balance_with_move is called for either
\* account id while only account 1 is registered; the other may register.
InitMovement == Prepared(Buyers, {1}, [u \in {1} |-> 0], <<>>, <<>>)

NextMovement ==
    \/ \E u \in TelegramIds : upsert_user(u)
    \/ \E a \in Admins : set_balance_with_move(a)

SpecMovement == InitMovement /\ [][NextMovement]_vars

\* Purchases against top-ups and adjustments under fair scheduling: the event
\* loop resumes every coroutine whose database call can return, and the
\* database grants a row lock that stays free.  Both accounts are registered
\* with balance 0 and SKU A has MaxCodes units at price MaxPrice, so a
\* purchase succeeds only after a top-up.
InitFair ==
    Prepared(Buyers, TelegramIds, [u \in TelegramIds |-> 0],
             [s \in {"A"} |-> [price_cents |-> MaxPrice, active |-> TRUE]],
             [i \in 1..MaxCodes |-> <<"A", <<"x">>>>])

NextFair ==
    \/ \E p \in BatchBuyers : deliver_purchase(p, LedgerCallers(p))
    \/ \E a \in Admins : admin_balance(a)

SpecFair ==
    /\ InitFair /\ [][NextFair]_vars
    /\ \A p \in Buyers : WF_vars(purchase_transaction(p))
    /\ \A a \in Admins : WF_vars(ledger_transaction(a))

\* Purchases over two SKUs and two funded accounts: the units alternate
\* between SKU A and SKU B, each SKU has its price, each account its balance.
FrameUnits == [i \in 1..MaxCodes |-> <<IF i % 2 = 1 THEN "A" ELSE "B", <<"x">>>>]

InitFrame ==
    \E b \in [TelegramIds -> {MaxPrice, 2 * MaxPrice}], pa \in 0..MaxPrice, pb \in 0..MaxPrice :
        Prepared(Buyers, TelegramIds, b,
                 [s \in Skus |-> [price_cents |-> IF s = "A" THEN pa ELSE pb, active |-> TRUE]],
                 FrameUnits)

NextFrame == \E p \in BatchBuyers : deliver_purchase(p, TelegramIds)

SpecFrame == InitFrame /\ [][NextFrame]_vars

\* ---------------------------------------------------------------- properties
Succeeded == {p \in DOMAIN proc : proc[p].result = "ok"}
InFlight == {p \in DOMAIN proc : proc[p].pc \notin {"idle", "done"}}
Started == {p \in DOMAIN proc : proc[p].pc # "idle"}
CodeLockHolders(i) == {l[3] : l \in {k \in row_locks : k[1] = "codes" /\ k[2] = i}}
UnitsOf(sku) == {i \in 1..Len(codes) : codes[i].sku = sku}
MovesOf(u) == {m \in balance_moves : m.telegram_id = u}
Failures == {"no_existe", "no_disponible", "no_registrado", "saldo_insuficiente", "sin_stock"}

\* C1: no inventory unit is handed to two buyers.  At most one open
\* transaction holds a code row; two successful purchases received different
\* unit ids; and the row a successful purchase received carries that
\* purchase's order id and buyer, so each row is referenced by one purchase.
C1_NoDoubleDelivery ==
    /\ \A i \in 1..Len(codes) : Cardinality(CodeLockHolders(i)) <= 1
    /\ \A p, q \in Succeeded : p # q => proc[p].code_id # proc[q].code_id
    /\ \A p \in Succeeded :
        /\ proc[p].code_id \in 1..Len(codes)
        /\ codes[proc[p].code_id].status = "delivered"
        /\ codes[proc[p].code_id].order_id = proc[p].order_id
        /\ codes[proc[p].code_id].buyer_telegram_id = proc[p].telegram_id

\* two purchases of one SKU both succeeded, on units 1 and 2
C1_Witness ==
    \E p, q \in Succeeded :
        /\ p # q
        /\ proc[p].sku = proc[q].sku
        /\ proc[p].code_id < proc[q].code_id
        /\ proc[p].order_id # proc[q].order_id

CallsBy(u) == {p \in Started : proc[p].telegram_id = u}
\* the account was topped up with at least the price of each of its calls
ToppedUp(u) == \E m \in balance_moves :
    /\ m.telegram_id = u
    /\ m.type = "topup"
    /\ m.amount_cents >= Cardinality(CallsBy(u)) * products["A"].price_cents
\* no call is running, every call made was for SKU A by an account whose
\* balance covers its calls, and no minted order id was already taken
BatchPremise ==
    /\ InFlight = {}
    /\ \A p \in Started : proc[p].sku = "A" /\ proc[p].result # "unique_violation"
    /\ \A u \in TelegramIds : CallsBy(u) # {} => (products["A"].price_cents = 0 \/ ToppedUp(u))
MinOf(a, b) == IF a <= b THEN a ELSE b

\* C2: K units of SKU A, N purchase calls of A by registered accounts whose
\* balance covers the price of each of their calls, no order id drawn twice:
\* once no call is running, min(N, K) calls succeeded, with pairwise
\* different units, and every other call ended out of stock.
C2_ExactlyMinSucceed ==
    BatchPremise =>
        /\ Cardinality(Succeeded) = MinOf(Cardinality(Started), Cardinality(UnitsOf("A")))
        /\ \A p, q \in Succeeded : p # q => proc[p].code_id # proc[q].code_id
        /\ \A p \in Started \ Succeeded : proc[p].result = "sin_stock"

\* three calls finished on two units at a positive price: two succeeded, one found no stock
C2_Witness ==
    /\ BatchPremise
    /\ Cardinality(Started) = 3
    /\ Cardinality(UnitsOf("A")) = 2
    /\ products["A"].price_cents > 0
    /\ Cardinality(Succeeded) = 2
    /\ \E p \in Started : proc[p].result = "sin_stock"

PurchaseMovesOf(o) ==
    {m \in balance_moves : m.type = "purchase" /\ m.ref = <<"order", o.order_id>>}
UnitsOfOrder(o) == {i \in 1..Len(codes) : codes[i].order_id = o.order_id}

\* C3: in the committed tables purchase movements, delivered units and orders
\* correspond one to one: every purchase movement references an order, every
\* order has exactly one unit (delivered) with its order id and exactly one
\* purchase movement, of amount minus its price, and every delivered unit
\* references an order.
C3_DebitUnitOrder ==
    /\ \A m \in balance_moves :
        m.type = "purchase" => \E o \in orders : m.ref = <<"order", o.order_id>>
    /\ \A o \in orders :
        /\ Cardinality(UnitsOfOrder(o)) = 1
        /\ \A i \in UnitsOfOrder(o) : codes[i].status = "delivered"
        /\ Cardinality(PurchaseMovesOf(o)) = 1
        /\ \A m \in PurchaseMovesOf(o) :
            m.amount_cents = 0 - o.price_cents /\ m.telegram_id = o.telegram_id
    /\ \A i \in 1..Len(codes) :
        codes[i].status = "delivered" => \E o \in orders : o.order_id = codes[i].order_id
    /\ \A i \in 1..Len(codes) :
        codes[i].status = "available" => codes[i].order_id = NoText

\* one purchase at a positive price is committed while another transaction
\* holds its uncommitted unit, order and debit
C3_Witness ==
    /\ \E o \in orders : o.price_cents > 0
    /\ \E p \in InFlight : tx[p].orders # {} /\ tx[p].codes # {} /\ tx[p].users # {}

RECURSIVE SumAmounts(_)
SumAmounts(ms) ==
    IF ms = {} THEN 0
    ELSE LET m == CHOOSE m \in ms : TRUE
         IN  m.amount_cents + SumAmounts(ms \ {m})

\* C4: each account's balance is the sum of the signed amounts of its movements.
C4_BalanceIsSumOfMoves ==
    \A u \in DOMAIN users : users[u] = SumAmounts(MovesOf(u))

\* C5: every movement row satisfies balance_after = balance_before + amount.
C5_MoveArithmetic ==
    \A m \in balance_moves :
        m.balance_after_cents = m.balance_before_cents + m.amount_cents

C6_Step(p) ==
    LET uid == proc[p].telegram_id
        price == proc[p].price_cents
        pc == proc[p].pc
    IN  /\ (pc = "lock_user" /\ uid \in DOMAIN users) =>
            IF users[uid] >= price
            THEN proc'[p].pc = "pick_code" /\ proc'[p].balance = users[uid]
            ELSE /\ proc'[p].pc = "done"
                 /\ proc'[p].result = "saldo_insuficiente"
                 /\ proc'[p].faltan = price - users[uid]
                 /\ tables' = tables
        /\ (pc = "pick_code" /\ \E i \in UnitsOf(proc[p].sku) :
                codes[i].status = "available" /\ CodeLockHolders(i) \subseteq {p})
            => proc'[p].pc = "mark_code"
        /\ pc = "mark_code" => proc'[p].pc = "insert_order"
        /\ (pc = "insert_order" /\ \A o \in orders : o.order_id # proc[p].order_id)
            => proc'[p].pc = "update_balance"
        /\ pc = "update_balance" => proc'[p].pc = "commit"
        /\ pc = "commit" =>
            /\ proc'[p].result = "ok"
            /\ users[uid] >= price
            /\ users'[uid] = users[uid] - price
            /\ (users[uid] = price => users'[uid] = 0)

\* C6: a registered account's purchase of an active SKU passes the balance
\* check exactly when the balance read under the account lock is >= the
\* price.  Below the price the call ends with shortfall = price - balance and
\* changes no table; at or above it the call goes on, every later step moves
\* to the next one as long as a unit can be locked and the order id is new,
\* and the commit debits exactly the price (balance = price leaves 0).
C6_SucceedsIffBalanceCoversPrice ==
    [][\A p \in DOMAIN proc : proc'[p] # proc[p] => C6_Step(p)]_vars

\* one call succeeded with balance = price > 0 and left 0; another was one unit short
C6_Witness ==
    \E p, q \in DOMAIN proc :
        /\ proc[p].result = "ok" /\ proc[p].price_cents > 0
        /\ proc[p].balance = proc[p].price_cents
        /\ proc[p].new_balance = 0
        /\ proc[q].result = "saldo_insuficiente" /\ proc[q].faltan = 1

C7_Step(p) ==
    /\ (proc'[p].result \in Failures /\ proc[p].result = "none") =>
        /\ proc[p].pc \in {"idle", "lock_user", "pick_code"}
        /\ tables' = tables
        /\ tx[p] = EmptyTx /\ tx'[p] = EmptyTx
        /\ \A l \in row_locks' : l[3] # p
    /\ proc[p].pc \in {"idle", "lock_user", "pick_code"} =>
        tables' = tables /\ tx'[p] = EmptyTx

\* C7: a call that ends in a failure outcome (unknown SKU, inactive product,
\* unregistered account, insufficient balance, out of stock) wrote nothing, in
\* that step or in any step before it, and holds no lock afterwards.
C7_FailureChangesNothing ==
    [][\A p \in DOMAIN proc : proc'[p] # proc[p] => C7_Step(p)]_vars

\* a call locked its account, found the only unit locked by an open purchase,
\* ended out of stock and holds no lock; the other purchase still holds its locks
C7_Witness ==
    \E p, q \in DOMAIN proc :
        /\ proc[p].result = "sin_stock" /\ proc[p].telegram_id \in DOMAIN users
        /\ q \in InFlight /\ <<"codes", proc[q].code_id, q>> \in row_locks
        /\ \A l \in row_locks : l[3] # p

\* C8: two successful purchases of one SKU never return the same payload.
C8_DistinctPayloads ==
    \A p, q \in Succeeded :
        (p # q /\ proc[p].sku = proc[q].sku) => proc[p].code_value # proc[q].code_value

\* C9 as stated: no account's balance is ever negative.
C9_NeverNegative == \A u \in DOMAIN users : users[u] >= 0

Adjusted(u) == \E m \in balance_moves : m.telegram_id = u /\ m.type = "admin_adjust"

\* C9 as amended: an account's balance is never negative as long as no
\* adjustment (/restar) was applied to it, and every successful purchase
\* leaves a balance >= 0.
C9_NonNegativeUnlessAdjusted ==
    /\ \A u \in DOMAIN users : ~Adjusted(u) => users[u] >= 0
    /\ \A p \in Succeeded : proc[p].new_balance >= 0
    /\ \A m \in balance_moves : m.type = "purchase" => m.balance_after_cents >= 0

\* an account paid a positive price after a top-up and is at 0; an adjusted one is below 0
C9_Witness ==
    /\ \E u \in DOMAIN users :
        /\ ~Adjusted(u) /\ users[u] = 0
        /\ \E m \in MovesOf(u) : m.type = "purchase" /\ m.amount_cents < 0
    /\ \E u \in DOMAIN users : Adjusted(u) /\ users[u] < 0

C10_Step(p) ==
    LET avail == {i \in UnitsOf(proc[p].sku) : codes[i].status = "available"}
        free == {i \in avail : CodeLockHolders(i) \subseteq {p}}
    IN  proc[p].pc = "pick_code" =>
            IF free = {}
            THEN proc'[p].result = "sin_stock"
            ELSE /\ proc'[p].pc = "mark_code"
                 /\ proc'[p].code_id \in free
                 /\ \A i \in free : proc'[p].code_id <= i
                 /\ ({l \in row_locks : l[1] = "codes"} = {} =>
                        \A i \in avail : proc'[p].code_id <= i)
                 /\ <<"codes", proc'[p].code_id, p>> \in row_locks'

\* C10: a purchase that claims a unit claims the lowest-id available unit of
\* its SKU that no other open transaction has locked (the lowest-id available
\* unit when no code row is locked), and ends out of stock only when there is
\* none.
C10_LowestIdFirst ==
    [][\A p \in DOMAIN proc : proc'[p] # proc[p] => C10_Step(p)]_vars

\* two open transactions on one SKU: the second skipped the locked unit 1 and took unit 2
C10_Witness ==
    \E p, q \in InFlight :
        /\ p # q /\ proc[p].sku = proc[q].sku
        /\ <<"codes", 1, p>> \in row_locks
        /\ <<"codes", 2, q>> \in row_locks
        /\ codes[1].status = "available"

C11_Step(p) ==
    LET sku == proc'[p].sku IN
    /\ (proc[p].pc = "idle" /\ sku \in DOMAIN products /\ ~products[sku].active) =>
        /\ proc'[p].pc = "done" /\ proc'[p].result = "no_disponible"
        /\ tables' = tables /\ tx'[p] = EmptyTx
        /\ \A l \in row_locks' : l[3] # p
    /\ (proc[p].pc = "idle" /\ sku \in DOMAIN products /\ products[sku].active) =>
        proc'[p].pc = "lock_user"
    /\ proc[p].pc # "idle" =>
        /\ proc'[p].result # "no_disponible"
        /\ C6_Step(p)
        /\ proc[p].pc = "commit" =>
            /\ codes'[proc[p].code_id].status = "delivered"
            /\ \E o \in orders' \ orders : o.order_id = proc[p].order_id /\ o.sku = proc[p].sku

\* C11: a purchase whose catalog check saw the SKU active goes through its
\* later steps exactly as the steps of a purchase of an active SKU do, whatever
\* set_active did in between: it never ends "no_disponible" and its commit
\* delivers the unit and inserts the order.  A purchase whose catalog check
\* finds the SKU inactive ends "no_disponible", writes nothing and holds no lock.
C11_DeactivationMidFlight ==
    [][\A p \in DOMAIN proc : proc'[p] # proc[p] => C11_Step(p)]_vars

\* SKU A was deactivated while one purchase of A is about to commit, and a
\* purchase started after the deactivation ended "no_disponible"
C11_Witness ==
    \E p, q \in DOMAIN proc :
        /\ proc[p].pc = "commit" /\ ~products[proc[p].sku].active
        /\ proc[q].result = "no_disponible" /\ proc[q].sku = proc[p].sku

C12_Step(p) ==
    LET price == proc[p].price_cents IN
    /\ (proc[p].pc = "idle" /\ proc'[p].pc = "lock_user") =>
        proc'[p].price_cents = products[proc'[p].sku].price_cents
    /\ proc[p].pc # "idle" => proc'[p].price_cents = price
    /\ proc[p].pc = "commit" =>
        /\ \E o \in orders' \ orders :
            /\ o.order_id = proc[p].order_id /\ o.price_cents = price
            /\ orders' = orders \cup {o}
        /\ \E m \in balance_moves' \ balance_moves :
            /\ m.ref = <<"order", proc[p].order_id>> /\ m.amount_cents = 0 - price
            /\ balance_moves' = balance_moves \cup {m}
        /\ users'[proc[p].telegram_id] = users[proc[p].telegram_id] - price

\* C12: the price a purchase read at its catalog check stays its price through
\* every later step; the order it commits carries that price and its purchase
\* movement debits that price, whatever set_price did in between.  No step of
\* any operation changes or removes an existing order or an existing movement.
C12_PriceSnapshot ==
    [][/\ orders \subseteq orders'
       /\ balance_moves \subseteq balance_moves'
       /\ \A p \in DOMAIN proc : proc'[p] # proc[p] => C12_Step(p)]_vars

\* an order was committed at a price the catalog no longer has, and an open
\* purchase is about to commit at a price the catalog no longer has
C12_Witness ==
    /\ \E o \in orders : o.price_cents # products[o.sku].price_cents
    /\ \E p \in DOMAIN proc :
        proc[p].pc = "commit" /\ proc[p].price_cents # products[proc[p].sku].price_cents

C13_Fields(c) ==
    /\ c.status \in {"available", "delivered"}
    /\ c.status = "delivered" =>
        c.delivered_at # NoText /\ c.buyer_telegram_id # NoId /\ c.order_id # NoText

\* C13: in the committed codes table a delivered unit has delivered_at, buyer
\* and order id set; a step that changes a unit's status changes it from
\* available to delivered; and no step of any operation changes a row that is
\* delivered, so a unit is delivered at most once and its delivery fields are
\* written once.
C13_WriteOnce ==
    [][/\ Len(codes') >= Len(codes)
       /\ \A i \in 1..Len(codes) :
            /\ C13_Fields(codes[i]) /\ C13_Fields(codes'[i])
            /\ codes[i].status = "delivered" => codes'[i] = codes[i]
            /\ codes'[i].status # codes[i].status =>
                codes[i].status = "available" /\ codes'[i].status = "delivered"]_vars

\* two units of one SKU were delivered to two accounts by two commits, each
\* with its own order id: the later commit came after the first delivery
C13_Witness ==
    \E i, j \in 1..Len(codes) :
        /\ i < j /\ codes[i].sku = codes[j].sku
        /\ codes[i].status = "delivered" /\ codes[j].status = "delivered"
        /\ codes[i].order_id # codes[j].order_id
        /\ codes[i].buyer_telegram_id # codes[j].buyer_telegram_id

\* C14: in the committed tables every order's id is carried by exactly one
\* code row, and two order rows never have the same order id.
C14_OneUnitPerOrder ==
    /\ \A o \in orders : Cardinality(UnitsOfOrder(o)) = 1
    /\ \A o1, o2 \in orders : o1.order_id = o2.order_id => o1 = o2

\* two orders are committed and one purchase minted an order id that was taken
C14_Witness ==
    /\ Cardinality(orders) = 2
    /\ \E p \in DOMAIN proc : proc[p].result = "unique_violation"

C15_Step(p) ==
    LET uid == proc[p].telegram_id
        taken == \E o \in orders : o.order_id = proc[p].order_id
    IN  /\ (proc[p].pc = "insert_order" /\ taken) =>
            /\ proc'[p].pc = "done" /\ proc'[p].result = "unique_violation"
            /\ proc'[p].order_id = proc[p].order_id
            /\ tables' = tables
            /\ tx'[p] = EmptyTx
            /\ \A l \in row_locks' : l[3] # p
            /\ codes'[proc[p].code_id].status = "available"
            /\ users'[uid] = proc[p].balance
        /\ proc'[p].result = "unique_violation" => (proc[p].pc = "insert_order" /\ taken)
        /\ proc[p].pc \in {"insert_order", "update_balance", "commit"} =>
            proc'[p].order_id = proc[p].order_id
        /\ proc[p].pc # "done"

\* C15: a purchase whose INSERT INTO orders meets a committed order with the
\* order id it minted ends with the unique violation: its transaction is
\* rolled back (no table changes, its buffered writes are dropped, its locks
\* are released, the unit it had locked is still available, the balance is the
\* one it read).  The order id minted is never replaced, and a call that has
\* ended takes no further step, so the purchase is not tried again.
C15_CollisionAborts ==
    [][\A p \in DOMAIN proc : proc'[p] # proc[p] => C15_Step(p)]_vars

\* a purchase ended with the unique violation: the order with its id is
\* committed, the unit it had claimed is available and unlocked
C15_Witness ==
    \E p \in DOMAIN proc :
        /\ proc[p].result = "unique_violation"
        /\ \E o \in orders : o.order_id = proc[p].order_id
        /\ codes[proc[p].code_id].status = "available"
        /\ CodeLockHolders(proc[p].code_id) = {}
        /\ users[proc[p].telegram_id] = proc[p].balance

\* C16: a call of set_balance_with_move whose SELECT ... FOR UPDATE finds no
\* row for the account ends with AccountNotFound for its caller, and writes no
\* balance and no movement.
C16_AccountNotFound ==
    [][\A a \in DOMAIN adm :
        (adm[a].pc = "lock_user" /\ adm[a].uid \notin DOMAIN users /\ adm'[a] # adm[a]) =>
            /\ adm'[a].ret = "AccountNotFound"
            /\ tables' = tables
            /\ tx'[a] = EmptyTx]_vars

\* every code row lock is held by a transaction that holds its account's row lock
C17_AccountLockFirst ==
    \A l \in row_locks :
        l[1] = "codes" => <<"users", proc[l[3]].telegram_id, l[3]>> \in row_locks

\* C17: concurrent purchases, top-ups and adjustments do not deadlock.  A
\* transaction holds a code row lock only while it holds its account's row
\* lock; the code selection of a purchase can always be taken (it never waits
\* for a code row lock); and under fair scheduling every purchase that started
\* ends (committed or aborted) and every ledger write that started ends.
C17_NoDeadlock ==
    /\ []C17_AccountLockFirst
    /\ [](\A p \in DOMAIN proc : proc[p].pc = "pick_code" => ENABLED SelectCode(p))
    /\ \A p \in Buyers : (proc[p].pc \notin {"idle", "done"}) ~> (proc[p].pc = "done")
    /\ \A a \in Admins : (adm[a].pc # "idle") ~> (adm[a].pc = "idle")

\* a purchase and a ledger write both wait for the account row that another
\* purchase of the same account holds together with a code row
C17_Witness ==
    \E p, q \in DOMAIN proc, a \in DOMAIN adm :
        /\ p # q /\ proc[p].telegram_id = proc[q].telegram_id
        /\ <<"users", proc[p].telegram_id, p>> \in row_locks
        /\ <<"codes", proc[p].code_id, p>> \in row_locks
        /\ proc[q].pc = "lock_user"
        /\ adm[a].pc = "lock_user" /\ adm[a].uid = proc[p].telegram_id

\* the transaction of call p is open and none of its steps can be taken
Waiting(p) == p \in InFlight /\ ~ENABLED purchase_transaction(p)
WaitsOnOwnAccount(p) ==
    proc[p].pc = "lock_user" /\ LockedByOther("users", proc[p].telegram_id, p)
\* the order insert of p meets the uncommitted order of another transaction
WaitsOnOrderId(p) ==
    /\ proc[p].pc = "insert_order"
    /\ \E q \in DOMAIN proc \ {p} : \E o \in tx[q].orders : o.order_id = proc[p].order_id

C18_Step(p) ==
    LET avail == {i \in UnitsOf(proc[p].sku) : codes[i].status = "available"}
        free == {i \in avail : CodeLockHolders(i) \subseteq {p}}
    IN  proc[p].pc = "pick_code" =>
            /\ {l \in row_locks' : l[3] # p} = {l \in row_locks : l[3] # p}
            /\ IF free = {}
               THEN proc'[p].pc = "done" /\ proc'[p].result = "sin_stock"
               ELSE /\ proc'[p].pc = "mark_code"
                    /\ proc'[p].code_id \in free
                    /\ <<"codes", proc'[p].code_id, p>> \in row_locks'
                    /\ \A l \in row_locks' :
                        (l[1] = "codes" /\ l[2] = proc'[p].code_id) => l[3] = p

C18_SelectionNeverWaits ==
    \A p \in DOMAIN proc : proc[p].pc = "pick_code" => ENABLED SelectCode(p)

\* C18 as stated: the code selection of a purchase can always be taken at once
\* and, whatever units other transactions hold, either locks an available unit
\* no other transaction holds or ends out of stock; and an open purchase that
\* cannot take a step is waiting for the lock of its own account row.
C18_OnlyWaitsOnOwnAccount ==
    /\ [](C18_SelectionNeverWaits /\ \A p \in DOMAIN proc : Waiting(p) => WaitsOnOwnAccount(p))
    /\ [][\A p \in DOMAIN proc : proc'[p] # proc[p] => C18_Step(p)]_vars

\* C18 as amended: the same, except that an open purchase that cannot take a
\* step is waiting either for the lock of its own account row or, at its order
\* insert, for the transaction that holds an uncommitted order with the same
\* order id.
C18_WaitsOnAccountOrOrderId ==
    /\ [](C18_SelectionNeverWaits
           /\ \A p \in DOMAIN proc : Waiting(p) => (WaitsOnOwnAccount(p) \/ WaitsOnOrderId(p)))
    /\ [][\A p \in DOMAIN proc : proc'[p] # proc[p] => C18_Step(p)]_vars

\* two accounts purchase one SKU: one transaction holds unit 1 and its
\* uncommitted order, the other skipped unit 1, locked unit 2 without waiting
\* and now waits at its order insert for the same order id
C18_Witness ==
    \E p, q \in InFlight :
        /\ proc[p].telegram_id # proc[q].telegram_id /\ proc[p].sku = proc[q].sku
        /\ <<"codes", 1, p>> \in row_locks /\ <<"codes", 2, q>> \in row_locks
        /\ tx[p].orders # {}
        /\ Waiting(q) /\ WaitsOnOrderId(q)

\* the movement of u that precedes m in id order, if any
PreviousMoves(u, m) == {n \in MovesOf(u) : n.id < m.id}
LatestOf(ms) == CHOOSE m \in ms : \A n \in ms : n.id <= m.id

C19_Chain ==
    \A u \in DOMAIN users :
        /\ \A m, n \in MovesOf(u) : m.id = n.id => m = n
        /\ \A m \in MovesOf(u) :
            m.balance_before_cents =
                IF PreviousMoves(u, m) = {} THEN 0
                ELSE LatestOf(PreviousMoves(u, m)).balance_after_cents
        /\ users[u] = IF MovesOf(u) = {} THEN 0 ELSE LatestOf(MovesOf(u)).balance_after_cents

C19_Accompanied ==
    /\ balance_moves \subseteq balance_moves'
    /\ \A u \in DOMAIN users :
        /\ u \in DOMAIN users'
        /\ users'[u] # users[u] =>
            \E m \in balance_moves' \ balance_moves :
                /\ m.telegram_id = u
                /\ m.balance_before_cents = users[u] /\ m.balance_after_cents = users'[u]
                /\ balance_moves' = balance_moves \cup {m}

\* C19: a step that changes the committed balance of an account appends, in
\* the same commit, exactly one movement row of that account, from the old
\* balance to the new one; so in every committed state the movements of an
\* account in id order chain (each balance_before is the balance_after of the
\* one before it, the first is 0) and the balance is the balance_after of the
\* latest movement, 0 without movements.
C19_LedgerChain ==
    /\ []C19_Chain
    /\ [][C19_Accompanied]_vars

\* an account has a top-up, a purchase and an adjustment whose balance_after
\* is not balance_before + amount; its three movements chain all the same
C19_Witness ==
    \E u \in DOMAIN users :
        /\ \E m \in MovesOf(u) : m.type = "topup"
        /\ \E m \in MovesOf(u) : m.type = "purchase" /\ m.amount_cents < 0
        /\ \E m \in MovesOf(u) :
            /\ m.type = "admin_adjust"
            /\ m.balance_after_cents # m.balance_before_cents + m.amount_cents

CodeLocks(locks) == {l \in locks : l[1] = "codes"}

C20_Step(p) ==
    LET sku == proc'[p].sku
        uid == proc'[p].telegram_id
        pc == proc[p].pc
        outcome == proc'[p].result
    IN  /\ pc = "idle" =>
            /\ row_locks' = row_locks /\ tables' = tables
            /\ IF sku \notin DOMAIN products THEN outcome = "no_existe"
               ELSE IF ~products[sku].active THEN outcome = "no_disponible"
               ELSE outcome = "none" /\ proc'[p].pc = "lock_user"
        /\ pc = "lock_user" =>
            /\ CodeLocks(row_locks') = CodeLocks(row_locks)
            /\ proc'[p].code_id = NoId
            /\ IF uid \notin DOMAIN users THEN outcome = "no_registrado"
               ELSE IF users[uid] < proc[p].price_cents THEN outcome = "saldo_insuficiente"
               ELSE outcome = "none" /\ proc'[p].pc = "pick_code"
        /\ pc = "pick_code" =>
            IF \E i \in UnitsOf(sku) : codes[i].status = "available" /\ CodeLockHolders(i) = {}
            THEN outcome = "none" /\ proc'[p].pc = "mark_code"
            ELSE outcome = "sin_stock"
        /\ outcome \in {"no_existe", "no_disponible"} => pc = "idle"
        /\ outcome \in {"no_registrado", "saldo_insuficiente"} => pc = "lock_user"
        /\ outcome = "sin_stock" => pc = "pick_code"

\* C20: the checks of a purchase come in one order and the first that fails
\* is the outcome: the catalog step reports an unknown SKU, else an inactive
\* product, and takes no lock and reads no account; the account step reports
\* an unregistered account, else an insufficient balance, whatever the stock
\* is, and locks no code row; only the code selection reports out of stock.
C20_CheckOrder ==
    [][\A p \in DOMAIN proc : proc'[p] # proc[p] => C20_Step(p)]_vars

\* a purchase ended with insufficient balance on a SKU without an available
\* unit, and never selected a code row
C20_Witness ==
    \E p \in DOMAIN proc :
        /\ proc[p].result = "saldo_insuficiente"
        /\ proc[p].sku \in DOMAIN products
        /\ \A i \in UnitsOf(proc[p].sku) : codes[i].status = "delivered"
        /\ proc[p].code_id = NoId

C21_Step(p) ==
    LET U == proc[p].telegram_id
        S == proc[p].sku
        price == proc[p].price_cents
        id == proc[p].code_id
    IN  /\ proc'[p].result = "ok" <=> proc[p].pc = "commit"
        /\ proc[p].pc # "commit" => tables' = tables
        /\ proc[p].pc = "commit" =>
            /\ codes[id].sku = S /\ codes[id].status = "available"
            /\ codes' = [codes EXCEPT ![id] =
                    [@ EXCEPT !.status = "delivered", !.delivered_at = NowStr,
                              !.buyer_telegram_id = U, !.order_id = proc[p].order_id]]
            /\ \E o \in orders' \ orders :
                /\ o.telegram_id = U /\ o.sku = S /\ o.price_cents = price
                /\ o.order_id = proc[p].order_id
                /\ orders' = orders \cup {o}
            /\ users' = [users EXCEPT ![U] = @ - price]
            /\ \E m \in balance_moves' \ balance_moves :
                /\ m.telegram_id = U /\ m.type = "purchase" /\ m.amount_cents = 0 - price
                /\ m.balance_before_cents = users[U] /\ m.balance_after_cents = users[U] - price
                /\ balance_moves' = balance_moves \cup {m}
            /\ products' = products

\* C21: the step that makes a purchase by account U of SKU S succeed changes
\* one code row, a unit of S that was available, to delivered with buyer U and
\* the order id; adds one order for (U, S) at the price; lowers U's balance by
\* the price; and appends one 'purchase' movement of U for minus the price.
\* Every other code row, every other account's balance, every existing order
\* and movement and the catalog are what they were; no other step of the
\* purchase changes a table.
C21_PurchaseFrame ==
    [][\A p \in DOMAIN proc : proc'[p] # proc[p] => C21_Step(p)]_vars

\* a purchase at a positive price succeeded after an earlier order of the
\* other account, whose balance and movements are in place, while a unit of
\* the other SKU exists
C21_Witness ==
    \E p \in Succeeded, o \in orders, i \in 1..Len(codes) :
        /\ proc[p].price_cents > 0
        /\ o.telegram_id # proc[p].telegram_id /\ o.order_id # proc[p].order_id
        /\ MovesOf(o.telegram_id) # {} /\ users[o.telegram_id] > 0
        /\ users[proc[p].telegram_id] = proc[p].balance - proc[p].price_cents
        /\ codes[i].sku # proc[p].sku
====
